---- MODULE Spec2Model ----
(***************************************************************************)
(* Model of WebRTCBrowserPeerConnectionConnector (src/webpack.config.js,   *)
(* lines 38-414): an adapter over one host RTCPeerConnection.              *)
(*                                                                         *)
(* The adapter's async methods suspend at every `await`.  The host settles *)
(* a promise in a task of the event loop; the continuation of the awaiting *)
(* method runs at the microtask checkpoint of that same task, before any   *)
(* other host task.  A host settlement and the continuation it wakes are   *)
(* therefore one step of the model; between two such steps any number of   *)
(* other calls may be started or settled.                                  *)
(***************************************************************************)
EXTENDS Integers, Sequences, FiniteSets, TLC

\* ---------------------------------------------------------------- bounds
MaxCalls == 2      \* adapter calls made in one behaviour
MaxSenders == 2    \* senders (transceivers) of the connection
MaxLayers == 2     \* encoding layers of a sender
MaxTracks == 2     \* tracks of one stream
MaxChannels == 1   \* native data channels
MaxEvents == 2     \* host events fired
MaxSets == 2       \* callback setter calls

\* ------------------------------------------------------- values
Null == "null"
NullDesc == [type |-> "null", origin |-> "none", id |-> 0]
Errors == {"InvalidStateError", "OperationError"}
Handlers == {"h1", "h2"}
CallIds == 1..MaxCalls
RemoteSdps == {"sdpA", "sdpB"}
Callbacks == {"cb1", "cb2"}
StreamIds == {"streamA", "streamB"}
Tracks == {"trackX", "trackY", "trackZ"}
Directions == {"sendrecv", "sendonly", "recvonly", "inactive"}
RemoteDesc(t, s) == [type |-> t, origin |-> s, id |-> 0]
LocalDesc(t, n) == [type |-> t, origin |-> "local", id |-> n]

VARIABLES
  remoteDescription,    \* connection.remoteDescription
  localDescription,     \* connection.localDescription
  onnegotiationneeded,  \* connection.onnegotiationneeded
  operations,           \* the host connection's chain of pending operations
  generated,            \* number of session descriptions the host has generated
  calls,                \* the adapter calls made so far, by call id
  negotiationInvoked,   \* handlers the negotiationneeded event has invoked
  connection,           \* the connection's six on<event> handler slots
  dataChannels,         \* the native data channels, each with its three slots
  adapters,             \* native channels the caller holds an adapter of
  registered,           \* per slot, the callback the caller last set
  setCount,             \* callback setter calls made
  eventCount,           \* host events fired
  lastEvent,            \* the last host event and the callbacks it invoked
  statsCall,            \* the collect...Stats call in progress
  pendingStats,         \* getStats requests the host has not settled
  fetched,              \* the tracks getStats was invoked for, in order
  collected,            \* the collector's invocations, in order
  transceivers,         \* connection.getTransceivers()
  trackCalls,           \* replaceTrack calls
  encodingCalls,        \* setEncodingParameters calls
  pendingCommits,       \* setParameters promises the host has not settled
  surfaced              \* errors that reached the caller of setEncodingParameters

negVars == <<remoteDescription, localDescription, onnegotiationneeded,
             operations, generated, calls, negotiationInvoked>>
cbVars == <<connection, dataChannels, adapters, registered, setCount,
            eventCount, lastEvent>>
statsVars == <<statsCall, pendingStats, fetched, collected>>
trackVars == <<transceivers, trackCalls>>
encVars == <<encodingCalls, pendingCommits, surfaced>>

vars == <<negVars, cbVars, statsVars, trackVars, encVars>>

\* A call that has not been made.
NoCall == [kind |-> "none", pc |-> "idle", arg |-> NullDesc, handler |-> Null,
           draft |-> NullDesc, result |-> NullDesc, error |-> Null,
           steps |-> <<>>]

\* The next call takes the lowest unused call id.
IsNext(c) == /\ calls[c].kind = "none"
             /\ \A d \in CallIds : d < c => calls[d].kind # "none"

\* The adapter invokes host operation op for call c: it joins the chain.
Invoke(c, op, arg) == Append(operations, [call |-> c, op |-> op, arg |-> arg])

Step(op) == [op |-> op, out |-> "pending"]

\* The last step of a log, settled with outcome out.
Settled(steps, out) ==
  [steps EXCEPT ![Len(steps)] = [@ EXCEPT !.out = out]]

\* Mutant of canAddCandidates: the getter reads the wrong description.
canAddCandidatesLocal == localDescription # NullDesc

\* canAddCandidates getter.
canAddCandidates == remoteDescription # NullDesc

\* ------------------------------------------------------------------------
\* Negotiation: createAnswer, createOffer, handleAnswer, addCandidate.
\* ------------------------------------------------------------------------

\* async createAnswer(offer), up to its first await:
\*   await this.connection.setRemoteDescription(offer)
createAnswer(c, offer) ==
  /\ IsNext(c)
  /\ calls' = [calls EXCEPT ![c] =
       [NoCall EXCEPT !.kind = "createAnswer", !.pc = "awaitSetRemote",
                      !.arg = offer,
                      !.steps = <<Step("setRemoteDescription")>>]]
  /\ operations' = Invoke(c, "setRemoteDescription", offer)
  /\ UNCHANGED <<remoteDescription, localDescription, onnegotiationneeded,
                 generated, negotiationInvoked>>

\* Mutant of createAnswerResume: a rejected setRemoteDescription is caught
\* and the method goes on to generate the answer.
createAnswerResumeUnchecked(c, out, value, chain) ==
  LET call == calls[c]
      done == Settled(call.steps, out)
  IN /\ onnegotiationneeded' = onnegotiationneeded
     /\ IF out # "ok" /\ call.pc # "awaitSetRemote"
        THEN /\ calls' = [calls EXCEPT ![c] =
                  [call EXCEPT !.pc = "rejected", !.error = out,
                               !.steps = done]]
             /\ operations' = chain
        ELSE CASE call.pc = "awaitSetRemote" ->
                   /\ calls' = [calls EXCEPT ![c] =
                        [call EXCEPT !.pc = "awaitCreate",
                                     !.steps = Append(done, Step("createAnswer"))]]
                   /\ operations' =
                        Append(chain, [call |-> c, op |-> "createAnswer",
                                       arg |-> NullDesc])
               [] call.pc = "awaitCreate" ->
                   /\ calls' = [calls EXCEPT ![c] =
                        [call EXCEPT !.pc = "awaitSetLocal", !.draft = value,
                                     !.steps = Append(done, Step("setLocalDescription"))]]
                   /\ operations' =
                        Append(chain, [call |-> c, op |-> "setLocalDescription",
                                       arg |-> value])
               [] call.pc = "awaitSetLocal" ->
                   /\ calls' = [calls EXCEPT ![c] =
                        [call EXCEPT !.pc = "resolved", !.result = call.draft,
                                     !.steps = done]]
                   /\ operations' = chain

\* createAnswer resumed after the awaited host step settled with `out`
\* (`value` is what the host resolved with, `chain` the rest of the chain).
createAnswerResume(c, out, value, chain) ==
  LET call == calls[c]
      done == Settled(call.steps, out)
  IN /\ onnegotiationneeded' = onnegotiationneeded
     /\ IF out # "ok"
        THEN \* the await throws: the async function rejects with the error
             /\ calls' = [calls EXCEPT ![c] =
                  [call EXCEPT !.pc = "rejected", !.error = out,
                               !.steps = done]]
             /\ operations' = chain
        ELSE CASE call.pc = "awaitSetRemote" ->
                   \* const answer = await this.connection.createAnswer()
                   /\ calls' = [calls EXCEPT ![c] =
                        [call EXCEPT !.pc = "awaitCreate",
                                     !.steps = Append(done, Step("createAnswer"))]]
                   /\ operations' =
                        Append(chain, [call |-> c, op |-> "createAnswer",
                                       arg |-> NullDesc])
               [] call.pc = "awaitCreate" ->
                   \* await this.connection.setLocalDescription(answer)
                   /\ calls' = [calls EXCEPT ![c] =
                        [call EXCEPT !.pc = "awaitSetLocal", !.draft = value,
                                     !.steps = Append(done, Step("setLocalDescription"))]]
                   /\ operations' =
                        Append(chain, [call |-> c, op |-> "setLocalDescription",
                                       arg |-> value])
               [] call.pc = "awaitSetLocal" ->
                   \* return answer
                   /\ calls' = [calls EXCEPT ![c] =
                        [call EXCEPT !.pc = "resolved", !.result = call.draft,
                                     !.steps = done]]
                   /\ operations' = chain

\* async createOffer(options), up to its first await:
\*   webRTCOptions.iceRestart = true if options?.handshakeRestart
\*   const offer = await this.connection.createOffer(webRTCOptions)
createOffer(c, handshakeRestart) ==
  /\ IsNext(c)
  /\ calls' = [calls EXCEPT ![c] =
       [NoCall EXCEPT !.kind = "createOffer", !.pc = "awaitCreate",
                      !.steps = <<Step("createOffer")>>]]
  /\ operations' =
       Append(operations, [call |-> c, op |-> "createOffer",
                           arg |-> [NullDesc EXCEPT !.type =
                                      IF handshakeRestart THEN "iceRestart"
                                      ELSE "null"]])
  /\ UNCHANGED <<remoteDescription, localDescription, onnegotiationneeded,
                 generated, negotiationInvoked>>

\* Mutant of createOfferResume: setLocalDescription is invoked and not
\* awaited, so the offer is returned before it is committed.
createOfferResumeDraft(c, out, value, chain) ==
  LET call == calls[c]
      done == Settled(call.steps, out)
  IN /\ onnegotiationneeded' = onnegotiationneeded
     /\ IF call.pc = "awaitCreate" /\ out = "ok"
        THEN /\ calls' = [calls EXCEPT ![c] =
                  [call EXCEPT !.pc = "resolved", !.draft = value,
                               !.result = value,
                               !.steps = Append(done, Step("setLocalDescription"))]]
             /\ operations' =
                  Append(chain, [call |-> c, op |-> "setLocalDescription",
                                 arg |-> value])
        ELSE /\ calls' = [calls EXCEPT ![c] =
                  [call EXCEPT !.pc = IF call.pc = "awaitCreate" THEN "rejected"
                                      ELSE call.pc,
                               !.error = IF call.pc = "awaitCreate" THEN out
                                         ELSE call.error,
                               !.steps = done]]
             /\ operations' = chain

\* createOffer resumed after the awaited host step settled.
createOfferResume(c, out, value, chain) ==
  LET call == calls[c]
      done == Settled(call.steps, out)
  IN /\ onnegotiationneeded' = onnegotiationneeded
     /\ IF out # "ok"
        THEN /\ calls' = [calls EXCEPT ![c] =
                  [call EXCEPT !.pc = "rejected", !.error = out,
                               !.steps = done]]
             /\ operations' = chain
        ELSE CASE call.pc = "awaitCreate" ->
                   \* await this.connection.setLocalDescription(offer)
                   /\ calls' = [calls EXCEPT ![c] =
                        [call EXCEPT !.pc = "awaitSetLocal", !.draft = value,
                                     !.steps = Append(done, Step("setLocalDescription"))]]
                   /\ operations' =
                        Append(chain, [call |-> c, op |-> "setLocalDescription",
                                       arg |-> value])
               [] call.pc = "awaitSetLocal" ->
                   \* return offer
                   /\ calls' = [calls EXCEPT ![c] =
                        [call EXCEPT !.pc = "resolved", !.result = call.draft,
                                     !.steps = done]]
                   /\ operations' = chain

\* Mutant of handleAnswer: the handler is registered before the remote
\* description is awaited.
handleAnswerEager(c, answer, negotiationHandler) ==
  /\ IsNext(c)
  /\ calls' = [calls EXCEPT ![c] =
       [NoCall EXCEPT !.kind = "handleAnswer", !.pc = "awaitSetRemote",
                      !.arg = answer, !.handler = negotiationHandler,
                      !.steps = <<Step("setRemoteDescription")>>]]
  /\ operations' = Invoke(c, "setRemoteDescription", answer)
  /\ onnegotiationneeded' =
       IF onnegotiationneeded = Null THEN negotiationHandler
       ELSE onnegotiationneeded
  /\ UNCHANGED <<remoteDescription, localDescription, generated,
                 negotiationInvoked>>

\* async handleAnswer(answer, negotiationHandler), up to its await:
\*   await this.connection.setRemoteDescription(answer)
handleAnswer(c, answer, negotiationHandler) ==
  /\ IsNext(c)
  /\ calls' = [calls EXCEPT ![c] =
       [NoCall EXCEPT !.kind = "handleAnswer", !.pc = "awaitSetRemote",
                      !.arg = answer, !.handler = negotiationHandler,
                      !.steps = <<Step("setRemoteDescription")>>]]
  /\ operations' = Invoke(c, "setRemoteDescription", answer)
  /\ UNCHANGED <<remoteDescription, localDescription, onnegotiationneeded,
                 generated, negotiationInvoked>>

\* Mutant of handleAnswerResume: the handler is assigned without the check.
handleAnswerResumeOverwrite(c, out, value, chain) ==
  LET call == calls[c]
      done == Settled(call.steps, out)
  IN /\ operations' = chain
     /\ IF out # "ok"
        THEN /\ calls' = [calls EXCEPT ![c] =
                  [call EXCEPT !.pc = "rejected", !.error = out,
                               !.steps = done]]
             /\ onnegotiationneeded' = onnegotiationneeded
        ELSE /\ calls' = [calls EXCEPT ![c] =
                  [call EXCEPT !.pc = "resolved", !.steps = done]]
             /\ onnegotiationneeded' = call.handler

\* handleAnswer resumed after setRemoteDescription settled.
handleAnswerResume(c, out, value, chain) ==
  LET call == calls[c]
      done == Settled(call.steps, out)
  IN /\ operations' = chain
     /\ IF out # "ok"
        THEN /\ calls' = [calls EXCEPT ![c] =
                  [call EXCEPT !.pc = "rejected", !.error = out,
                               !.steps = done]]
             /\ onnegotiationneeded' = onnegotiationneeded
        ELSE \* if (!this.connection.onnegotiationneeded)
             \*   this.connection.onnegotiationneeded = negotiationHandler
             /\ calls' = [calls EXCEPT ![c] =
                  [call EXCEPT !.pc = "resolved", !.steps = done]]
             /\ onnegotiationneeded' =
                  IF onnegotiationneeded = Null THEN call.handler
                  ELSE onnegotiationneeded

\* addCandidate(candidate): return this.connection.addIceCandidate(candidate)
addCandidate(c, candidate) ==
  /\ IsNext(c)
  /\ calls' = [calls EXCEPT ![c] =
       [NoCall EXCEPT !.kind = "addCandidate", !.pc = "awaitAddIce",
                      !.arg = candidate,
                      !.steps = <<Step("addIceCandidate")>>]]
  /\ operations' = Invoke(c, "addIceCandidate", candidate)
  /\ UNCHANGED <<remoteDescription, localDescription, onnegotiationneeded,
                 generated, negotiationInvoked>>

\* Mutant of addCandidateResume: the host's rejection is caught and another
\* error is thrown in its place.
addCandidateResumeWrapped(c, out, value, chain) ==
  LET call == calls[c]
      done == Settled(call.steps, out)
  IN /\ operations' = chain
     /\ onnegotiationneeded' = onnegotiationneeded
     /\ calls' = [calls EXCEPT ![c] =
          [call EXCEPT !.pc = IF out = "ok" THEN "resolved" ELSE "rejected",
                       !.error = IF out = "ok" THEN Null ELSE "ConnectorError",
                       !.steps = done]]

\* The caller holds the host's own promise: it settles as the host settles it.
addCandidateResume(c, out, value, chain) ==
  LET call == calls[c]
      done == Settled(call.steps, out)
  IN /\ operations' = chain
     /\ onnegotiationneeded' = onnegotiationneeded
     /\ calls' = [calls EXCEPT ![c] =
          [call EXCEPT !.pc = IF out = "ok" THEN "resolved" ELSE "rejected",
                       !.error = IF out = "ok" THEN Null ELSE out,
                       !.steps = done]]

\* The host settles the operation at the head of its chain, with success or
\* with an error, and the awaiting adapter call resumes.
HostSettle(out) ==
  /\ operations # <<>>
  /\ LET o == Head(operations)
         creates == o.op \in {"createOffer", "createAnswer"} /\ out = "ok"
         value == IF creates
                  THEN LocalDesc(IF o.op = "createOffer" THEN "offer" ELSE "answer",
                                 generated + 1)
                  ELSE NullDesc
     IN /\ generated' = IF creates THEN generated + 1 ELSE generated
        /\ remoteDescription' =
             IF o.op = "setRemoteDescription" /\ out = "ok" THEN o.arg
             ELSE remoteDescription
        /\ localDescription' =
             IF o.op = "setLocalDescription" /\ out = "ok" THEN o.arg
             ELSE localDescription
        /\ \/ /\ calls[o.call].kind = "createAnswer"
              /\ createAnswerResume(o.call, out, value, Tail(operations))
           \/ /\ calls[o.call].kind = "createOffer"
              /\ createOfferResume(o.call, out, value, Tail(operations))
           \/ /\ calls[o.call].kind = "handleAnswer"
              /\ handleAnswerResume(o.call, out, value, Tail(operations))
           \/ /\ calls[o.call].kind = "addCandidate"
              /\ addCandidateResume(o.call, out, value, Tail(operations))
  /\ UNCHANGED negotiationInvoked

\* The host fires negotiationneeded: the registered handler, if any, runs.
FireNegotiationNeeded ==
  /\ onnegotiationneeded # Null
  /\ negotiationInvoked' = negotiationInvoked \cup {onnegotiationneeded}
  /\ UNCHANGED <<remoteDescription, localDescription, onnegotiationneeded,
                 operations, generated, calls>>

\* ------------------------------------------------------------------------
\* Callback slots of the connection and of its data channels.
\* ------------------------------------------------------------------------
ConnSlots == {"onicecandidate", "onconnectionstatechange", "ondatachannel",
              "onicegatheringstatechange", "oniceconnectionstatechange",
              "ontrack"}
ChanSlots == {"onbufferedamountlow", "onclose", "onmessage"}
ChannelIds == 1..MaxChannels
\* A slot is named by its channel (0: the connection itself) and its name.
SlotKeys == ({0} \X ConnSlots) \cup (ChannelIds \X ChanSlots)

\* What a host slot holds: the caller's callback itself (null included), or
\* a closure of the adapter around it.
Direct(callback) == [wrapped |-> FALSE, callback |-> callback]
Closure(callback) == [wrapped |-> TRUE, callback |-> callback]
NoHandler == Direct(Null)

\* function createDataChannel(dataChannel): the adapter object around a
\* native data channel.
createDataChannel(dataChannel) == [adapter |-> TRUE, channel |-> dataChannel]
NoPayload == [adapter |-> FALSE, channel |-> 0]

NewChannel(label) ==
  [label |-> label, onbufferedamountlow |-> NoHandler, onclose |-> NoHandler,
   onmessage |-> NoHandler]

\* set onCandidate(callback)
onCandidate(callback) ==
  /\ connection' = [connection EXCEPT !["onicecandidate"] = Direct(callback)]
  /\ UNCHANGED dataChannels

\* set onConnectionStateChange(callback)
onConnectionStateChange(callback) ==
  /\ connection' = [connection EXCEPT !["onconnectionstatechange"] = Direct(callback)]
  /\ UNCHANGED dataChannels

\* Mutant of onDataChannel: null returns without clearing the slot.
onDataChannelKeep(callback) ==
  /\ connection' = [connection EXCEPT !["ondatachannel"] =
       IF callback = Null THEN @ ELSE Closure(callback)]
  /\ UNCHANGED dataChannels

\* set onDataChannel(callback): null is stored as it is, a callback is
\* stored inside a closure that wraps the incoming channel for it.
onDataChannel(callback) ==
  /\ connection' = [connection EXCEPT !["ondatachannel"] =
       IF callback = Null THEN Direct(callback) ELSE Closure(callback)]
  /\ UNCHANGED dataChannels

\* set onGatheringStateChange(callback)
onGatheringStateChange(callback) ==
  /\ connection' = [connection EXCEPT !["onicegatheringstatechange"] = Direct(callback)]
  /\ UNCHANGED dataChannels

\* set onHandshakeStateChange(callback)
onHandshakeStateChange(callback) ==
  /\ connection' = [connection EXCEPT !["oniceconnectionstatechange"] = Direct(callback)]
  /\ UNCHANGED dataChannels

\* set onTrack(callback)
onTrack(callback) ==
  /\ connection' = [connection EXCEPT !["ontrack"] = Direct(callback)]
  /\ UNCHANGED dataChannels

\* Data channel adapter: set onBufferedAmountLow(callback)
onBufferedAmountLow(ch, callback) ==
  /\ dataChannels' = [dataChannels EXCEPT ![ch].onbufferedamountlow = Direct(callback)]
  /\ UNCHANGED connection

\* Data channel adapter: set onClose(callback)
onClose(ch, callback) ==
  /\ dataChannels' = [dataChannels EXCEPT ![ch].onclose = Direct(callback)]
  /\ UNCHANGED connection

\* Data channel adapter: set onMessage(callback)
onMessage(ch, callback) ==
  /\ dataChannels' = [dataChannels EXCEPT ![ch].onmessage = Direct(callback)]
  /\ UNCHANGED connection

\* The caller's record of a slot: the callback it last set there, and the
\* callbacks it had set there before and has since replaced or removed.
NoRegistration == [callback |-> Null, stale |-> {}]
Register(reg, callback) ==
  [callback |-> callback,
   stale |-> (reg.stale \cup {reg.callback}) \ {callback, Null}]

\* The caller assigns `callback` to the setter of slot `key`.
SetCallback(key, callback, setter) ==
  /\ registered' = [registered EXCEPT ![key] = Register(@, callback)]
  /\ setter
  /\ UNCHANGED <<adapters, eventCount, lastEvent>>

SetOnCandidate(cb) == SetCallback(<<0, "onicecandidate">>, cb, onCandidate(cb))
SetOnConnectionStateChange(cb) ==
  SetCallback(<<0, "onconnectionstatechange">>, cb, onConnectionStateChange(cb))
SetOnDataChannel(cb) == SetCallback(<<0, "ondatachannel">>, cb, onDataChannel(cb))
SetOnGatheringStateChange(cb) ==
  SetCallback(<<0, "onicegatheringstatechange">>, cb, onGatheringStateChange(cb))
SetOnHandshakeStateChange(cb) ==
  SetCallback(<<0, "oniceconnectionstatechange">>, cb, onHandshakeStateChange(cb))
SetOnTrack(cb) == SetCallback(<<0, "ontrack">>, cb, onTrack(cb))
\* The three setters of an adapter the caller holds.
SetOnBufferedAmountLow(ch, cb) ==
  /\ ch \in adapters
  /\ SetCallback(<<ch, "onbufferedamountlow">>, cb, onBufferedAmountLow(ch, cb))
SetOnClose(ch, cb) ==
  /\ ch \in adapters
  /\ SetCallback(<<ch, "onclose">>, cb, onClose(ch, cb))
SetOnMessage(ch, cb) ==
  /\ ch \in adapters
  /\ SetCallback(<<ch, "onmessage">>, cb, onMessage(ch, cb))

\* The host dispatches an event to a slot: the handler it holds, if any, is
\* called once; with no handler the event is dropped.
Dispatch(key, handler, payload) ==
  /\ eventCount < MaxEvents
  /\ eventCount' = eventCount + 1
  /\ lastEvent' =
       [key |-> key, event |-> eventCount + 1,
        invoked |-> IF handler.callback = Null THEN {} ELSE {handler.callback},
        payload |-> IF handler.callback = Null THEN NoPayload ELSE payload,
        registered |-> registered[key].callback,
        stale |-> registered[key].stale]
  /\ UNCHANGED <<connection, registered>>

\* A connection event other than datachannel fires.
FireConnectionEvent(slot) ==
  /\ slot \in ConnSlots \ {"ondatachannel"}
  /\ Dispatch(<<0, slot>>, connection[slot], NoPayload)
  /\ UNCHANGED <<dataChannels, adapters>>

\* The remote peer opens a data channel: the host creates the native channel
\* and fires datachannel; the adapter's closure hands the callback the
\* channel wrapped by createDataChannel, a bare callback would get it raw.
FireDataChannel ==
  LET id == Len(dataChannels) + 1
      handler == connection["ondatachannel"]
      delivered == handler.callback # Null /\ handler.wrapped
  IN /\ id \in ChannelIds
     /\ Dispatch(<<0, "ondatachannel">>, handler,
                 IF handler.wrapped THEN createDataChannel(id)
                 ELSE [adapter |-> FALSE, channel |-> id])
     /\ dataChannels' = Append(dataChannels, NewChannel("remote"))
     /\ adapters' = IF delivered THEN adapters \cup {id} ELSE adapters

\* An event of a native data channel fires.
FireChannelEvent(ch, slot) ==
  /\ ch \in 1..Len(dataChannels)
  /\ slot \in ChanSlots
  /\ Dispatch(<<ch, slot>>, dataChannels[ch][slot], NoPayload)
  /\ UNCHANGED <<dataChannels, adapters>>

\* createDataChannel(label):
\*   return createDataChannel(this.connection.createDataChannel(label))
CreateDataChannel(label) ==
  LET id == Len(dataChannels) + 1
  IN /\ id \in ChannelIds
     /\ dataChannels' = Append(dataChannels, NewChannel(label))
     /\ adapters' = adapters \cup {createDataChannel(id).channel}
     /\ UNCHANGED <<connection, registered, eventCount, lastEvent>>

\* A setter call out of the budget of MaxSets calls.
Budgeted(set) == setCount < MaxSets /\ setCount' = setCount + 1 /\ set

\* ------------------------------------------------------------------------
\* Statistics: collectReceiversStats, collectSendersStats.
\* ------------------------------------------------------------------------

\* What the host's getStats resolves with: an RTCStatsReport, a map from
\* ids to stats objects (here: its entries in iteration order), or nothing.
Undefined == [defined |-> FALSE, entries |-> <<>>]
ReportSize(track) ==
  CASE track = "trackX" -> 2
    [] track = "trackY" -> 1
    [] OTHER -> 0
HostReport(track) ==
  [defined |-> TRUE,
   entries |-> [k \in 1..ReportSize(track) |->
                  [id |-> k, value |-> [track |-> track, stat |-> k]]]]

\* function convertStatsReport(report): the values of the report, in its
\* iteration order.
convertStatsReport(report) ==
  [k \in 1..Len(report.entries) |-> report.entries[k].value]

NoStatsCall == [kind |-> "none", pc |-> "idle", input |-> <<>>, i |-> 1, j |-> 1,
                stats |-> <<>>, error |-> Null]

\* One entry of a sender map: absent, or a record whose track and sender may
\* each be missing.
NoEntry == [present |-> FALSE, track |-> Null, sender |-> Null]
Usable(entry) == entry.present /\ entry.track # Null /\ entry.sender # Null

\* Mutant of Collect: the empty batch is not skipped.
CollectAlways(coll, stats, streamId) ==
  Append(coll, [stats |-> stats, streamId |-> streamId])

\* The end of the loop body of both collectors:
\*   if (stats.length === 0) continue;  collector(stats, streamId);
Collect(coll, stats, streamId) ==
  IF Len(stats) = 0 THEN coll
  ELSE Append(coll, [stats |-> stats, streamId |-> streamId])

\* collectReceiversStats from stream i, track j on, up to its next await (a
\* getStats of a track) or to its end.
RECURSIVE ReceiversLoop(_, _)
ReceiversLoop(call, coll) ==
  IF call.i > Len(call.input)
  THEN [call |-> [call EXCEPT !.pc = "resolved"], collected |-> coll]
  ELSE LET stream == call.input[call.i] IN
       IF call.j <= Len(stream.tracks)
       THEN [call |-> [call EXCEPT !.pc = "awaitStats"], collected |-> coll]
       ELSE ReceiversLoop([call EXCEPT !.i = @ + 1, !.j = 1, !.stats = <<>>],
                          Collect(coll, call.stats, stream.id))

\* collectSendersStats likewise; step 1 is the video entry, step 2 the audio
\* entry, each fetched only if it has both a track and a sender.
RECURSIVE SendersLoop(_, _)
SendersLoop(call, coll) ==
  IF call.i > Len(call.input)
  THEN [call |-> [call EXCEPT !.pc = "resolved"], collected |-> coll]
  ELSE LET stream == call.input[call.i] IN
       CASE call.j = 1 ->
              IF Usable(stream.video)
              THEN [call |-> [call EXCEPT !.pc = "awaitStats"], collected |-> coll]
              ELSE SendersLoop([call EXCEPT !.j = 2], coll)
         [] call.j = 2 ->
              IF Usable(stream.audio)
              THEN [call |-> [call EXCEPT !.pc = "awaitStats"], collected |-> coll]
              ELSE SendersLoop([call EXCEPT !.j = 3], coll)
         [] OTHER ->
              SendersLoop([call EXCEPT !.i = @ + 1, !.j = 1, !.stats = <<>>],
                          Collect(coll, call.stats, stream.id))

\* The track the call awaits the statistics of.
AwaitedTrack(call) ==
  LET stream == call.input[call.i] IN
  IF call.kind = "receivers" THEN stream.tracks[call.j]
  ELSE IF call.j = 1 THEN stream.video.track ELSE stream.audio.track

\* The call runs to `next`: the collector has been invoked as the loop passed
\* the end of a stream, and getStats is invoked at the await; `pending` are
\* the requests the host still holds, `log` the record of the requests made.
RunTo(next, pending, log) ==
  /\ statsCall' = next.call
  /\ collected' = next.collected
  /\ IF next.call.pc = "awaitStats"
     THEN /\ pendingStats' = Append(pending, AwaitedTrack(next.call))
          /\ fetched' = Append(log, [stream |-> next.call.i,
                                     track |-> AwaitedTrack(next.call),
                                     out |-> "pending"])
     ELSE /\ pendingStats' = pending
          /\ fetched' = log

\* async collectReceiversStats(receivers, collector), up to its first await.
collectReceiversStats(receivers) ==
  /\ statsCall.kind = "none"
  /\ RunTo(ReceiversLoop([NoStatsCall EXCEPT !.kind = "receivers",
                                            !.input = receivers], collected),
           pendingStats, fetched)

\* async collectSendersStats(senders, collector), up to its first await.
collectSendersStats(senders) ==
  /\ statsCall.kind = "none"
  /\ RunTo(SendersLoop([NoStatsCall EXCEPT !.kind = "senders",
                                          !.input = senders], collected),
           pendingStats, fetched)

\* Mutant of Pushed: the report is put in front of the batch (unshift).
PushedFront(stats, trackStats) ==
  IF trackStats.defined THEN <<convertStatsReport(trackStats)>> \o stats
  ELSE stats

\* The stats of the stream in hand after getStats resolved with trackStats:
\*   if (trackStats) stats.push(convertStatsReport(trackStats))
Pushed(stats, trackStats) ==
  IF trackStats.defined THEN Append(stats, convertStatsReport(trackStats))
  ELSE stats

\* collectReceiversStats resumed after getStats settled.
collectReceiversStatsResume(out, trackStats) ==
  IF out \in Errors
  THEN /\ statsCall' = [statsCall EXCEPT !.pc = "rejected", !.error = out]
       /\ pendingStats' = Tail(pendingStats)
       /\ fetched' = Settled(fetched, out)
       /\ UNCHANGED collected
  ELSE RunTo(ReceiversLoop([statsCall EXCEPT !.stats = Pushed(@, trackStats),
                                  !.j = @ + 1], collected),
             Tail(pendingStats), Settled(fetched, out))

\* collectSendersStats resumed after getStats settled.
collectSendersStatsResume(out, trackStats) ==
  IF out \in Errors
  THEN /\ statsCall' = [statsCall EXCEPT !.pc = "rejected", !.error = out]
       /\ pendingStats' = Tail(pendingStats)
       /\ fetched' = Settled(fetched, out)
       /\ UNCHANGED collected
  ELSE RunTo(SendersLoop([statsCall EXCEPT !.stats = Pushed(@, trackStats),
                                  !.j = @ + 1], collected),
             Tail(pendingStats), Settled(fetched, out))

\* The host settles the outstanding getStats: with a report, with nothing,
\* or with an error; the collecting call resumes.
StatsSettle(out) ==
  /\ pendingStats # <<>>
  /\ LET trackStats == IF out = "report" THEN HostReport(Head(pendingStats))
                       ELSE Undefined
     IN \/ /\ statsCall.kind = "receivers"
           /\ collectReceiversStatsResume(out, trackStats)
        \/ /\ statsCall.kind = "senders"
           /\ collectSendersStatsResume(out, trackStats)

\* The input mappings: streams in any order, each with its tracks in any
\* order (a Map and a Set iterate in insertion order).
Injective(s) == \A a, b \in DOMAIN s : s[a] = s[b] => a = b
SeqsUpTo(S, n) == UNION {[1..k -> S] : k \in 0..n}
TrackLists == {t \in SeqsUpTo(Tracks, MaxTracks) : Injective(t)}
StreamOrders == {o \in SeqsUpTo(StreamIds, Cardinality(StreamIds)) : Injective(o)}
ReceiverMaps ==
  UNION {{[k \in 1..Len(o) |-> [id |-> o[k], tracks |-> t[k]]] :
            t \in [1..Len(o) -> TrackLists]} : o \in StreamOrders}
EntriesOf(track, sender) ==
  {NoEntry} \cup {[present |-> TRUE, track |-> t, sender |-> s] :
                    t \in {track, Null}, s \in {sender, Null}}
SenderStreams ==
  {[video |-> v, audio |-> a] : v \in EntriesOf("trackX", "videoSender"),
                                a \in EntriesOf("trackY", "audioSender")}
SenderMaps ==
  UNION {{[k \in 1..Len(o) |-> [id |-> o[k], video |-> t[k].video,
                                audio |-> t[k].audio]] :
            t \in [1..Len(o) -> SenderStreams]} : o \in StreamOrders}

\* ------------------------------------------------------------------------
\* Senders: addTrack, replaceTrack, setEncodingParameters.
\* ------------------------------------------------------------------------
NoParameters == [defined |-> FALSE, encodings |-> <<>>]
HostEncoding == [scaleResolutionDownBy |-> 1, maxFramerate |-> 0,
                 maxBitrate |-> 0, priority |-> "low"]
HostParameters(n) == [defined |-> TRUE, encodings |-> [k \in 1..n |-> HostEncoding]]
Transceiver(direction, track, parameters) ==
  [direction |-> direction, track |-> track, parameters |-> parameters]
\* A sender is named by the position of its transceiver.
SenderIds == 1..MaxSenders

\* addTrack(track, stream): return this.connection.addTrack(track, stream);
\* the host adds a transceiver that sends the track.
addTrack(track) ==
  /\ Len(transceivers) < MaxSenders
  /\ transceivers' = Append(transceivers,
                            Transceiver("sendrecv", track, HostParameters(1)))

\* async replaceTrack(track, sender), up to its await:
\*   await rtcSender.replaceTrack(track)
replaceTrack(track, sender) ==
  /\ Len(trackCalls) < MaxCalls
  /\ sender \in 1..Len(transceivers)
  /\ trackCalls' = Append(trackCalls,
       [sender |-> sender, track |-> track, pc |-> "awaitReplace",
        error |-> Null, before |-> transceivers[sender].direction])
  /\ UNCHANGED transceivers

\* Mutant of replaceTrackResume: the direction is set on every transceiver,
\* whichever sender it has.
replaceTrackResumeAll(i, out, swapped) ==
  LET call == trackCalls[i] IN
  IF out # "ok"
  THEN /\ trackCalls' = [trackCalls EXCEPT ![i] =
            [call EXCEPT !.pc = "rejected", !.error = out]]
       /\ transceivers' = swapped
  ELSE /\ trackCalls' = [trackCalls EXCEPT ![i] = [call EXCEPT !.pc = "resolved"]]
       /\ transceivers' =
            [k \in 1..Len(swapped) |-> [swapped[k] EXCEPT !.direction = "sendrecv"]]

\* replaceTrack resumed after the host's swap settled; `swapped` are the
\* transceivers as the host left them.
\*   getTransceivers().forEach(t => { if (t.sender === rtcSender) t.direction = 'sendrecv' })
replaceTrackResume(i, out, swapped) ==
  LET call == trackCalls[i] IN
  IF out # "ok"
  THEN /\ trackCalls' = [trackCalls EXCEPT ![i] =
            [call EXCEPT !.pc = "rejected", !.error = out]]
       /\ transceivers' = swapped
  ELSE /\ trackCalls' = [trackCalls EXCEPT ![i] = [call EXCEPT !.pc = "resolved"]]
       /\ transceivers' =
            [k \in 1..Len(swapped) |->
               IF k = call.sender THEN [swapped[k] EXCEPT !.direction = "sendrecv"]
               ELSE swapped[k]]

\* The host settles a pending track swap: on success the sender carries the
\* new track; the awaiting call resumes.
ReplaceSettle(i, out) ==
  /\ i \in 1..Len(trackCalls)
  /\ trackCalls[i].pc = "awaitReplace"
  /\ replaceTrackResume(i, out,
       IF out = "ok"
       THEN [transceivers EXCEPT ![trackCalls[i].sender].track = trackCalls[i].track]
       ELSE transceivers)

\* function convertPriority(priority)
convertPriority(priority) ==
  CASE priority = "Low" -> "low"
    [] priority = "High" -> "high"
    [] OTHER -> "medium"

\* The body of the forEach over parameters.encodings.
Encoded(encoding, scaleResolutionDownBy, maxFramerate, maxBitrate, priority) ==
  [encoding EXCEPT !.scaleResolutionDownBy = scaleResolutionDownBy,
                   !.maxFramerate = maxFramerate,
                   !.maxBitrate = maxBitrate,
                   !.priority = convertPriority(priority)]

\* Mutant of setEncodingParameters: the parameters are not checked, and
\* reading the encodings of none throws.
setEncodingParametersUnchecked(sender, scaleResolutionDownBy, maxFramerate, maxBitrate, priority) ==
  LET parameters == transceivers[sender].parameters
      rewritten ==
        [parameters EXCEPT !.encodings =
           [k \in 1..Len(parameters.encodings) |->
              Encoded(parameters.encodings[k], scaleResolutionDownBy,
                      maxFramerate, maxBitrate, priority)]]
      Call(hostCalls, submitted) ==
        [sender |-> sender, had |-> parameters,
         args |-> <<scaleResolutionDownBy, maxFramerate, maxBitrate, priority>>,
         hostCalls |-> hostCalls, submitted |-> submitted,
         commit |-> IF Len(hostCalls) > 1 THEN "pending" ELSE "none"]
  IN /\ Len(encodingCalls) < MaxCalls
     /\ sender \in 1..Len(transceivers)
     /\ IF ~parameters.defined
        THEN /\ encodingCalls' =
                  Append(encodingCalls, Call(<<"getParameters">>, NoParameters))
             /\ surfaced' = surfaced \cup {"TypeError"}
             /\ UNCHANGED pendingCommits
        ELSE /\ encodingCalls' =
                  Append(encodingCalls,
                         Call(<<"getParameters", "setParameters">>, rewritten))
             /\ pendingCommits' = Append(pendingCommits,
                  [call |-> Len(encodingCalls) + 1, sender |-> sender,
                   parameters |-> rewritten])
             /\ UNCHANGED surfaced
     /\ UNCHANGED transceivers

\* setEncodingParameters(sender, scaleResolutionDownBy, maxFramerate,
\* maxBitrate, priority): synchronous.  It reads the sender's parameters,
\* returns if there are none, and otherwise rewrites every encoding and hands
\* the result to setParameters, whose promise it leaves behind.
setEncodingParameters(sender, scaleResolutionDownBy, maxFramerate, maxBitrate, priority) ==
  LET parameters == transceivers[sender].parameters
      rewritten ==
        [parameters EXCEPT !.encodings =
           [k \in 1..Len(parameters.encodings) |->
              Encoded(parameters.encodings[k], scaleResolutionDownBy,
                      maxFramerate, maxBitrate, priority)]]
      Call(hostCalls, submitted) ==
        [sender |-> sender, had |-> parameters,
         args |-> <<scaleResolutionDownBy, maxFramerate, maxBitrate, priority>>,
         hostCalls |-> hostCalls, submitted |-> submitted,
         commit |-> IF Len(hostCalls) > 1 THEN "pending" ELSE "none"]
  IN /\ Len(encodingCalls) < MaxCalls
     /\ sender \in 1..Len(transceivers)
     /\ IF ~parameters.defined
        THEN /\ encodingCalls' =
                  Append(encodingCalls, Call(<<"getParameters">>, NoParameters))
             /\ UNCHANGED pendingCommits
        ELSE /\ encodingCalls' =
                  Append(encodingCalls,
                         Call(<<"getParameters", "setParameters">>, rewritten))
             /\ pendingCommits' = Append(pendingCommits,
                  [call |-> Len(encodingCalls) + 1, sender |-> sender,
                   parameters |-> rewritten])
     /\ UNCHANGED <<transceivers, surfaced>>

\* Mutant of commitRejected: the promise has no catch handler, and the
\* rejection surfaces as an unhandled rejection.
commitRejectedUnhandled(error) == surfaced' = surfaced \cup {error}

\* .catch(() => {}) on the promise of setParameters: the rejection ends here.
commitRejected(error) == surfaced' = surfaced

\* The host settles a pending setParameters: on success the sender has the
\* new parameters, a failure goes to the promise's catch handler.
CommitSettle(k, out) ==
  /\ k \in 1..Len(pendingCommits)
  /\ pendingCommits' = [j \in 1..(Len(pendingCommits) - 1) |->
                          IF j < k THEN pendingCommits[j] ELSE pendingCommits[j + 1]]
  /\ IF out = "ok"
     THEN /\ transceivers' = [transceivers EXCEPT ![pendingCommits[k].sender].parameters =
                                pendingCommits[k].parameters]
          /\ UNCHANGED surfaced
     ELSE /\ commitRejected(out)
          /\ UNCHANGED transceivers
  /\ encodingCalls' = [encodingCalls EXCEPT ![pendingCommits[k].call].commit = out]

\* ------------------------------------------------------------------------
\* Specifications
\* ------------------------------------------------------------------------
NoEvent == [key |-> <<0, "none">>, event |-> 0, invoked |-> {},
            payload |-> NoPayload, registered |-> Null, stale |-> {}]

\* The state after the constructor: a fresh host connection.
InitNeg ==
  /\ remoteDescription = NullDesc
  /\ localDescription = NullDesc
  /\ onnegotiationneeded = Null
  /\ operations = <<>>
  /\ generated = 0
  /\ calls = [c \in CallIds |-> NoCall]
  /\ negotiationInvoked = {}
InitCallbacks ==
  /\ connection = [s \in ConnSlots |-> NoHandler]
  /\ dataChannels = <<>>
  /\ adapters = {}
  /\ registered = [k \in SlotKeys |-> NoRegistration]
  /\ setCount = 0
  /\ eventCount = 0
  /\ lastEvent = NoEvent
InitStats ==
  /\ statsCall = NoStatsCall
  /\ pendingStats = <<>>
  /\ fetched = <<>>
  /\ collected = <<>>
InitCalls ==
  /\ trackCalls = <<>>
  /\ encodingCalls = <<>>
  /\ pendingCommits = <<>>
  /\ surfaced = {}

Init == InitNeg /\ InitCallbacks /\ InitStats /\ InitCalls /\ transceivers = <<>>

\* Negotiation and candidates.
NextNeg ==
  /\ \/ \E c \in CallIds, s \in RemoteSdps : createAnswer(c, RemoteDesc("offer", s))
     \/ \E c \in CallIds, r \in BOOLEAN : createOffer(c, r)
     \/ \E c \in CallIds, s \in RemoteSdps, h \in Handlers :
          handleAnswer(c, RemoteDesc("answer", s), h)
     \/ \E c \in CallIds, s \in RemoteSdps :
          addCandidate(c, RemoteDesc("candidate", s))
     \/ \E out \in {"ok"} \cup Errors : HostSettle(out)
     \/ FireNegotiationNeeded
  /\ UNCHANGED <<cbVars, statsVars, trackVars, encVars>>

Spec == Init /\ [][NextNeg]_vars

\* Negotiation beside the operations that leave the remote description alone.
NextCandidates ==
  \/ /\ \/ \E c \in CallIds : createAnswer(c, RemoteDesc("offer", "sdpA"))
        \/ \E c \in CallIds : createOffer(c, FALSE)
        \/ \E c \in CallIds : handleAnswer(c, RemoteDesc("answer", "sdpB"), "h1")
        \/ \E c \in CallIds : addCandidate(c, RemoteDesc("candidate", "sdpA"))
        \/ \E out \in {"ok", "OperationError"} : HostSettle(out)
     /\ UNCHANGED <<cbVars, statsVars, trackVars, encVars>>
  \/ /\ \E t \in {"trackX"} : addTrack(t)
     /\ UNCHANGED <<negVars, cbVars, statsVars, trackCalls, encVars>>
  \/ /\ \E cb \in Callbacks \cup {Null} : SetOnCandidate(cb)
     /\ UNCHANGED <<negVars, setCount, statsVars, trackVars, encVars>>

SpecCandidates == Init /\ [][NextCandidates]_vars

\* Callback slots and host events.
NextCallbacks ==
  /\ \/ \E cb \in Callbacks \cup {Null} : Budgeted(SetOnCandidate(cb))
     \/ \E cb \in Callbacks \cup {Null} : Budgeted(SetOnConnectionStateChange(cb))
     \/ \E cb \in Callbacks \cup {Null} : Budgeted(SetOnDataChannel(cb))
     \/ \E cb \in Callbacks \cup {Null} : Budgeted(SetOnGatheringStateChange(cb))
     \/ \E cb \in Callbacks \cup {Null} : Budgeted(SetOnHandshakeStateChange(cb))
     \/ \E cb \in Callbacks \cup {Null} : Budgeted(SetOnTrack(cb))
     \/ \E ch \in ChannelIds, cb \in Callbacks \cup {Null} :
          Budgeted(SetOnBufferedAmountLow(ch, cb))
     \/ \E ch \in ChannelIds, cb \in Callbacks \cup {Null} :
          Budgeted(SetOnClose(ch, cb))
     \/ \E ch \in ChannelIds, cb \in Callbacks \cup {Null} :
          Budgeted(SetOnMessage(ch, cb))
     \/ \E slot \in ConnSlots : FireConnectionEvent(slot) /\ UNCHANGED setCount
     \/ FireDataChannel /\ UNCHANGED setCount
     \/ \E ch \in ChannelIds, slot \in ChanSlots :
          FireChannelEvent(ch, slot) /\ UNCHANGED setCount
     \/ CreateDataChannel("label") /\ UNCHANGED setCount
  /\ UNCHANGED <<negVars, statsVars, trackVars, encVars>>

SpecCallbacks == Init /\ [][NextCallbacks]_vars

\* Statistics collection: one call, on any input mapping.
NextStats ==
  /\ \/ /\ statsCall.kind = "none"
        /\ \E receivers \in ReceiverMaps : collectReceiversStats(receivers)
     \/ /\ statsCall.kind = "none"
        /\ \E senders \in SenderMaps : collectSendersStats(senders)
     \/ \E out \in {"report", "undefined"} \cup Errors : StatsSettle(out)
  /\ UNCHANGED <<negVars, cbVars, trackVars, encVars>>

SpecStats == Init /\ [][NextStats]_vars

\* Track replacement, on transceivers of any direction.
InitTracks ==
  /\ InitNeg /\ InitCallbacks /\ InitStats /\ InitCalls
  /\ transceivers \in
       {t \in SeqsUpTo({Transceiver(d, "trackX", HostParameters(1)) :
                          d \in Directions}, MaxSenders) : Len(t) > 0}

NextTracks ==
  /\ \/ \E t \in {"trackY", Null}, s \in SenderIds : replaceTrack(t, s)
     \/ \E i \in CallIds, out \in {"ok"} \cup Errors : ReplaceSettle(i, out)
     \/ \E t \in {"trackZ"} : addTrack(t) /\ UNCHANGED trackCalls
  /\ UNCHANGED <<negVars, cbVars, statsVars, encVars>>

SpecTracks == InitTracks /\ [][NextTracks]_vars

\* Encoding parameters, on senders with and without a parameter set.
InitEncoding ==
  /\ InitNeg /\ InitCallbacks /\ InitStats /\ InitCalls
  /\ transceivers \in
       {t \in SeqsUpTo({Transceiver("sendrecv", "trackX", p) :
                          p \in {NoParameters, HostParameters(0),
                                HostParameters(MaxLayers)}},
                       MaxSenders) : Len(t) > 0}

NextEncoding ==
  /\ \/ \E s \in SenderIds, priority \in {"Low", "Medium", "High"} :
          setEncodingParameters(s, 2, 15, 500, priority) /\ UNCHANGED trackCalls
     \/ \E k \in CallIds, out \in {"ok"} \cup Errors :
          CommitSettle(k, out) /\ UNCHANGED trackCalls
  /\ UNCHANGED <<negVars, cbVars, statsVars>>

SpecEncoding == InitEncoding /\ [][NextEncoding]_vars

\* ------------------------------------------------------------------------
\* Properties of the negotiation methods
\* ------------------------------------------------------------------------
CallsOf(kinds) == {c \in CallIds : calls[c].kind \in kinds}
OpsOf(steps) == [i \in 1..Len(steps) |-> steps[i].op]
IsPrefix(s, t) == Len(s) <= Len(t) /\ \A i \in 1..Len(s) : s[i] = t[i]
AnswerSteps == <<"setRemoteDescription", "createAnswer", "setLocalDescription">>
OfferSteps == <<"createOffer", "setLocalDescription">>

\* C1: every createAnswer call runs setRemoteDescription, createAnswer,
\* setLocalDescription in that order, each started only after the previous
\* one succeeded; a resolved call has run all three and both descriptions
\* are set; a call whose remote commit failed has invoked nothing else.
C1_CreateAnswerOrder ==
  \A c \in CallsOf({"createAnswer"}) :
    LET st == calls[c].steps IN
    /\ IsPrefix(OpsOf(st), AnswerSteps)
    /\ \A i \in 1..(Len(st) - 1) : st[i].out = "ok"
    /\ calls[c].pc = "resolved" =>
         /\ OpsOf(st) = AnswerSteps
         /\ \A i \in 1..Len(st) : st[i].out = "ok"
         /\ remoteDescription # NullDesc
         /\ localDescription # NullDesc
         /\ calls[c].result.type = "answer"
    /\ st[1].out \in Errors =>
         /\ Len(st) = 1
         /\ calls[c].pc = "rejected"
         /\ calls[c].draft = NullDesc

\* A createAnswer call has resolved after all three host steps.
C1_Witness ==
  \E c \in CallsOf({"createAnswer"}) :
    /\ calls[c].pc = "resolved"
    /\ remoteDescription = calls[c].arg
    /\ localDescription = calls[c].result

\* A createAnswer call was rejected by its remote-description commit.
C1_WitnessFailed ==
  \E c \in CallsOf({"createAnswer"}) :
    calls[c].pc = "rejected" /\ calls[c].steps[1].out \in Errors

\* C2: a createOffer call resolves only in the step in which the host has
\* committed its offer, after generating it; the offer it returns is, at
\* that moment, the connection's local description.
C2_OfferCommitted ==
  [][\A c \in CallIds :
       (calls[c].kind = "createOffer" /\ calls[c].pc # "resolved"
          /\ calls'[c].pc = "resolved") =>
         /\ calls'[c].result = localDescription'
         /\ calls'[c].result.type = "offer"
         /\ OpsOf(calls'[c].steps) = OfferSteps
         /\ \A i \in 1..2 : calls'[c].steps[i].out = "ok"]_vars

\* One createOffer call has returned its committed offer while another
\* createOffer call, in flight beside it, holds a draft the host has generated
\* and not committed.
C2_Witness ==
  \E c, d \in CallsOf({"createOffer"}) :
    /\ calls[c].pc = "resolved"
    /\ calls[c].result = localDescription
    /\ calls[d].pc = "awaitSetLocal"
    /\ calls[d].draft # NullDesc
    /\ calls[d].draft # localDescription

\* The handleAnswer calls, and the first of them.
HandleAnswerCalls == CallsOf({"handleAnswer"})
FirstOf(S) == CHOOSE c \in S : \A d \in S : c <= d
RemoteCommitted(c) ==
  /\ calls[c].kind \in {"createAnswer", "handleAnswer"}
  /\ calls[c].steps[1].op = "setRemoteDescription"
  /\ calls[c].steps[1].out = "ok"

\* C3 as stated: only the handler of the first handleAnswer call is ever
\* registered or invoked.
C3_FirstCallWins ==
  HandleAnswerCalls # {} =>
    LET first == calls[FirstOf(HandleAnswerCalls)].handler IN
    /\ onnegotiationneeded \in {Null, first}
    /\ negotiationInvoked \subseteq {first}

\* C3 (amended): the registered renegotiation-needed callback is the handler
\* of the first handleAnswer call whose remote-description commit succeeded,
\* it is registered from the moment that commit succeeds, and no other handler
\* is ever invoked.
C3_FirstCommittedWins ==
  LET ok == {c \in HandleAnswerCalls : RemoteCommitted(c)} IN
  /\ ok = {} => onnegotiationneeded = Null /\ negotiationInvoked = {}
  /\ ok # {} => /\ onnegotiationneeded = calls[FirstOf(ok)].handler
                /\ negotiationInvoked \subseteq {calls[FirstOf(ok)].handler}

\* Two handleAnswer calls with different handlers have both committed, and
\* the registered (and invoked) handler is the first one's.
C3_Witness ==
  \E c, d \in HandleAnswerCalls :
    /\ c < d
    /\ calls[c].handler # calls[d].handler
    /\ calls[c].pc = "resolved" /\ calls[d].pc = "resolved"
    /\ onnegotiationneeded = calls[c].handler
    /\ negotiationInvoked = {calls[c].handler}

\* C4: canAddCandidates is true exactly when some createAnswer or
\* handleAnswer call has had its setRemoteDescription step succeed.
C4_CanAddCandidates ==
  canAddCandidates <=> \E c \in CallIds : RemoteCommitted(c)

\* canAddCandidates is true after the answer of a handleAnswer call was
\* committed, beside a completed createOffer call, an added track and a
\* registered candidate callback.
C4_Witness ==
  /\ canAddCandidates
  /\ \E c \in CallsOf({"handleAnswer"}) : RemoteCommitted(c)
  /\ \E c \in CallsOf({"createOffer"}) : calls[c].pc = "resolved"
  /\ Len(transceivers) > 0
  /\ registered[<<0, "onicecandidate">>].callback # Null

\* C10: a rejected call carries the error of the host step that rejected,
\* unchanged, and no call invokes a host step twice.
C10_TransparentErrors ==
  \A c \in CallsOf({"createAnswer", "createOffer", "handleAnswer", "addCandidate"}) :
    LET st == calls[c].steps IN
    /\ \A i, j \in 1..Len(st) : st[i].op = st[j].op => i = j
    /\ calls[c].pc = "rejected" <=> st[Len(st)].out \in Errors
    /\ calls[c].pc = "rejected" => calls[c].error = st[Len(st)].out
    /\ calls[c].pc # "rejected" => calls[c].error = Null
    /\ Cardinality({i \in 1..Len(operations) : operations[i].call = c})
         = Cardinality({i \in 1..Len(st) : st[i].out = "pending"})

\* Calls have been rejected by the host with two different errors.
C10_Witness ==
  \E c, d \in CallIds :
    /\ calls[c].pc = "rejected" /\ calls[d].pc = "rejected"
    /\ calls[c].error # calls[d].error
    /\ Len(calls[c].steps) > 1

\* ------------------------------------------------------------------------
\* Properties of the statistics collectors
\* ------------------------------------------------------------------------
\* The flattened report the host gives for a track.
FlatReport(track) ==
  [k \in 1..ReportSize(track) |-> [track |-> track, stat |-> k]]
\* The batch a stream is due: one flattened report per track of the stream
\* that yielded a report, in the order fetched.
BatchOf(i) ==
  LET Yielded(f) == f.stream = i /\ f.out = "report"
      got == SelectSeq(fetched, Yielded)
  IN [k \in 1..Len(got) |-> FlatReport(got[k].track)]
\* The streams the call is through with.
StreamsDone ==
  {i \in 1..Len(statsCall.input) :
     i < statsCall.i \/ statsCall.pc = "resolved"}
InvocationsFor(streamId) ==
  {n \in 1..Len(collected) : collected[n].streamId = streamId}

C5_WitnessSenders ==
  /\ statsCall.kind = "senders"
  /\ statsCall.pc = "resolved"
  /\ Len(statsCall.input) = 2
  /\ Len(fetched) = 3
  /\ Len(collected) = 1

\* ------------------------------------------------------------------------
\* Properties of the callback slots
\* ------------------------------------------------------------------------
HostSlot(key) ==
  IF key[1] = 0 THEN connection[key[2]] ELSE dataChannels[key[1]][key[2]]
LiveKeys == {key \in SlotKeys : key[1] <= Len(dataChannels)}

\* C6: every slot holds the callback last set there and nothing else; an
\* event invokes that callback once, and no callback that was replaced or
\* removed before the event; with no callback set the event invokes nothing;
\* the callback of onDataChannel is handed the wrapped channel.
C6_SingleSlot ==
  /\ \A key \in LiveKeys : HostSlot(key).callback = registered[key].callback
  /\ lastEvent.event = eventCount
  /\ lastEvent.invoked =
       IF lastEvent.registered = Null THEN {} ELSE {lastEvent.registered}
  /\ lastEvent.invoked \cap lastEvent.stale = {}
  /\ lastEvent.invoked # {} /\ lastEvent.key = <<0, "ondatachannel">> =>
       lastEvent.payload.adapter

\* A datachannel event fired after the onDataChannel callback had been set
\* and then removed: nothing was invoked.
C6_Witness ==
  /\ lastEvent.key = <<0, "ondatachannel">>
  /\ lastEvent.stale # {}
  /\ lastEvent.registered = Null
  /\ lastEvent.invoked = {}

\* An event of a data channel invoked the callback that replaced another.
C6_WitnessReplaced ==
  /\ lastEvent.key[1] > 0
  /\ lastEvent.stale # {}
  /\ lastEvent.invoked = {lastEvent.registered}

\* ------------------------------------------------------------------------
\* Properties of replaceTrack and setEncodingParameters
\* ------------------------------------------------------------------------
\* C7: in the step in which a replaceTrack call resolves, the transceiver of
\* its sender becomes sendrecv and carries the new track, and no other
\* transceiver changes; the step in which the call is made, and the step in
\* which it is rejected, change no transceiver.
C7_ReplaceTrackDirection ==
  [][/\ Len(trackCalls') > Len(trackCalls) => transceivers' = transceivers
     /\ \A i \in 1..Len(trackCalls) :
          LET s == trackCalls[i].sender IN
          trackCalls[i].pc = "awaitReplace" =>
            /\ trackCalls'[i].pc = "resolved" =>
                 /\ transceivers'[s].direction = "sendrecv"
                 /\ transceivers'[s].track = trackCalls[i].track
                 /\ \A k \in 1..Len(transceivers) :
                      k # s => transceivers'[k] = transceivers[k]
            /\ trackCalls'[i].pc = "rejected" => transceivers' = transceivers]_vars

\* A replaceTrack call on a send-only sender has resolved beside an untouched
\* transceiver that is not sendrecv, and a call on another sender was rejected.
C7_Witness ==
  /\ \E i \in 1..Len(trackCalls) :
       /\ trackCalls[i].pc = "resolved"
       /\ trackCalls[i].before = "sendonly"
       /\ transceivers[trackCalls[i].sender].direction = "sendrecv"
  /\ \E i \in 1..Len(trackCalls) :
       /\ trackCalls[i].pc = "rejected"
       /\ transceivers[trackCalls[i].sender].direction # "sendrecv"

\* C8: a setEncodingParameters call on a sender without parameters only
\* reads them: setParameters is not invoked, nothing is handed to the host,
\* no error reaches the caller and the sender still has no parameters.
C8_NoParametersNoOp ==
  \A n \in 1..Len(encodingCalls) :
    LET call == encodingCalls[n] IN
    ~call.had.defined =>
      /\ call.hostCalls = <<"getParameters">>
      /\ call.submitted = NoParameters
      /\ call.commit = "none"
      /\ \A k \in 1..Len(pendingCommits) : pendingCommits[k].call # n
      /\ transceivers[call.sender].parameters = NoParameters
      /\ surfaced = {}

\* A call was made on a sender without parameters.
C8_Witness ==
  \E n \in 1..Len(encodingCalls) :
    /\ ~encodingCalls[n].had.defined
    /\ encodingCalls[n].hostCalls = <<"getParameters">>

\* C9: a setEncodingParameters call on a sender with parameters hands the
\* host, in one setParameters call, the sender's layers with the four values
\* on every layer (the priority mapped Low to low, High to high, anything
\* else to medium); whether that commit resolves or rejects, no error ever
\* reaches the caller.
C9_UniformAndSwallowed ==
  /\ surfaced = {}
  /\ \A n \in 1..Len(encodingCalls) :
       LET call == encodingCalls[n] IN
       call.had.defined =>
         /\ call.hostCalls = <<"getParameters", "setParameters">>
         /\ call.commit # "none"
         /\ Cardinality({k \in 1..Len(pendingCommits) : pendingCommits[k].call = n})
              = IF call.commit = "pending" THEN 1 ELSE 0
         /\ call.submitted.defined
         /\ Len(call.submitted.encodings) = Len(call.had.encodings)
         /\ \A k \in 1..Len(call.submitted.encodings) :
              call.submitted.encodings[k] =
                [scaleResolutionDownBy |-> call.args[1],
                 maxFramerate |-> call.args[2],
                 maxBitrate |-> call.args[3],
                 priority |-> IF call.args[4] = "Low" THEN "low"
                              ELSE IF call.args[4] = "High" THEN "high"
                              ELSE "medium"]
         /\ \A k \in 1..Len(pendingCommits) :
              pendingCommits[k].call = n =>
                pendingCommits[k].parameters = call.submitted

\* The commit of a call on a sender with several layers was rejected by the
\* host, and the commit of another call resolved.
C9_Witness ==
  /\ \E n \in 1..Len(encodingCalls) :
       /\ Len(encodingCalls[n].had.encodings) > 1
       /\ encodingCalls[n].commit \in Errors
  /\ \E n \in 1..Len(encodingCalls) : encodingCalls[n].commit = "ok"


\* ------------------------------------------------------------------------
\* Order of the statistics collection
\* ------------------------------------------------------------------------
\* The tracks of stream i in the order the call iterates them: the Set's
\* order for receivers, video then audio (where usable) for senders.
TracksOf(i) ==
  LET stream == statsCall.input[i] IN
  IF statsCall.kind = "receivers" THEN stream.tracks
  ELSE (IF Usable(stream.video) THEN <<stream.video.track>> ELSE <<>>)
         \o (IF Usable(stream.audio) THEN <<stream.audio.track>> ELSE <<>>)
\* The requests made for stream i, in the order made.
FetchesOf(i) ==
  LET OfStream(f) == f.stream = i IN SelectSeq(fetched, OfStream)
\* The position in the input mapping of the stream of the n-th invocation.
StreamOf(n) ==
  CHOOSE i \in 1..Len(statsCall.input) :
    statsCall.input[i].id = collected[n].streamId
\* The reports of stream i in iteration order of its tracks.
OrderedBatch(i) ==
  LET YieldedTrack(t) ==
        \E k \in 1..Len(fetched) :
          fetched[k].stream = i /\ fetched[k].track = t /\ fetched[k].out = "report"
      got == SelectSeq(TracksOf(i), YieldedTrack)
  IN [k \in 1..Len(got) |-> FlatReport(got[k])]

\* C11: within a collect call the streams are processed in the iteration
\* order of the input mapping, one after another: the collector invocations
\* are in that order; when a request for a stream has been made, every
\* earlier stream has had all its requests settled and, if it yielded a
\* report, its collector invocation; at most one getStats request is
\* outstanding, and it is the last one made; the requests of a stream are
\* made in the iteration order of its tracks, and the reports in a batch are
\* in that order.
C11_StreamOrder ==
  /\ \A n, m \in 1..Len(collected) : n < m => StreamOf(n) < StreamOf(m)
  /\ \A a, b \in 1..Len(fetched) : a < b => fetched[a].stream <= fetched[b].stream
  /\ \A b \in 1..Len(fetched) : \A i \in 1..(fetched[b].stream - 1) :
       /\ \A a \in 1..Len(fetched) :
            fetched[a].stream = i => a < b /\ fetched[a].out # "pending"
       /\ OrderedBatch(i) # <<>> => InvocationsFor(statsCall.input[i].id) # {}
  /\ Len(pendingStats) <= 1
  /\ \A a \in 1..Len(fetched) :
       fetched[a].out = "pending" => a = Len(fetched) /\ Len(pendingStats) = 1
  /\ \A i \in 1..Len(statsCall.input) :
       LET made == FetchesOf(i) IN
       IsPrefix([k \in 1..Len(made) |-> made[k].track], TracksOf(i))
  /\ \A n \in 1..Len(collected) : collected[n].stats = OrderedBatch(StreamOf(n))

\* collectSendersStats on a mapping that iterates streamB before streamA,
\* each with a video and an audio sender, has resolved: the collector was
\* invoked for streamB and then for streamA, each time with the video report
\* before the audio report.
C11_Witness ==
  /\ statsCall.kind = "senders"
  /\ statsCall.pc = "resolved"
  /\ Len(fetched) = 4
  /\ collected =
       <<[stats |-> <<FlatReport("trackX"), FlatReport("trackY")>>,
          streamId |-> "streamB"],
         [stats |-> <<FlatReport("trackX"), FlatReport("trackY")>>,
          streamId |-> "streamA"]>>

\* collectReceiversStats on a mapping of two streams is awaiting a request
\* for the second stream, after the collector was invoked for the first
\* with two reports in the order of its tracks.
C11_WitnessReceivers ==
  /\ statsCall.kind = "receivers"
  /\ statsCall.pc = "awaitStats"
  /\ fetched[Len(fetched)].stream = 2
  /\ collected = <<[stats |-> <<FlatReport("trackY"), FlatReport("trackX")>>,
                    streamId |-> statsCall.input[1].id]>>

\* ------------------------------------------------------------------------
\* Registration of the negotiation handler
\* ------------------------------------------------------------------------
\* The handlers of the handleAnswer calls whose answer the host committed.
CommittedHandlers ==
  {calls[c].handler : c \in {d \in HandleAnswerCalls : RemoteCommitted(d)}}

\* C12: handleAnswer registers its handler only after its remote
\* description was committed: the registered and the invoked handlers are
\* handlers of calls whose commit succeeded; the step that makes the call and
\* the step in which its setRemoteDescription is rejected leave the slot as
\* it was; and a call whose commit succeeds after every earlier handleAnswer
\* call was rejected has its own handler registered.
C12_RegisterAfterCommit ==
  /\ [](/\ onnegotiationneeded \in CommittedHandlers \cup {Null}
        /\ negotiationInvoked \subseteq CommittedHandlers
        /\ \A c \in HandleAnswerCalls :
             (/\ RemoteCommitted(c)
              /\ \A d \in HandleAnswerCalls : d < c => calls[d].pc = "rejected")
               => onnegotiationneeded = calls[c].handler)
  /\ [][\A c \in CallIds :
         /\ (calls[c].kind = "none" /\ calls'[c].kind = "handleAnswer") =>
              onnegotiationneeded' = onnegotiationneeded
         /\ (calls[c].kind = "handleAnswer" /\ calls[c].pc = "awaitSetRemote"
               /\ calls'[c].pc = "rejected") =>
              onnegotiationneeded' = onnegotiationneeded]_vars

\* A handleAnswer call was rejected by its setRemoteDescription, a later
\* call with another handler committed, and the later call's handler is
\* the one registered and invoked.
C12_Witness ==
  \E c, d \in HandleAnswerCalls :
    /\ c < d
    /\ calls[c].pc = "rejected"
    /\ calls[d].pc = "resolved"
    /\ calls[c].handler # calls[d].handler
    /\ onnegotiationneeded = calls[d].handler
    /\ negotiationInvoked = {calls[d].handler}
====
